---- MODULE Spec2Model ----
(***************************************************************************)
(* Booking admission control of jain-tap-backend: DbService.addSubmission  *)
(* (src/src/services/db.service.js) running on the single shared sqlite3   *)
(* handle `this.db`, together with the admin calendar write.               *)
(*                                                                         *)
(* Every SQL statement is one atomic step on the handle.  A call issues    *)
(* its next statement from the callback of the previous one, so statements *)
(* of different calls interleave; all of them run on the same connection   *)
(* and therefore inside whatever transaction is open on it.                *)
(*                                                                         *)
(* BEGIN EXCLUSIVE and ROLLBACK are issued without a callback.  When the   *)
(* connection refuses one of them, addSubmission is not told: either the   *)
(* error is dropped and the call carries on (BeginRefused,                 *)
(* RollbackRefused), or it reaches the process as an uncaught exception    *)
(* and the process exits (UncaughtException).  Both outcomes are steps of  *)
(* the model.  SELECTs do not fail; an INSERT fails on a duplicate id and  *)
(* a COMMIT fails when no transaction is open.                             *)
(***************************************************************************)
EXTENDS Integers, FiniteSets, Sequences, TLC

\* ----- bounds of the model -----
MaxCalls == 2
MaxMonth == 1
MaxDay == 2
MaxPhone == 2
MaxLimit == 2
MaxId == 2
MaxAdminOps == 1
MaxHorizon == 2

\* ----- program constants -----
DefaultMaxPerDay == 3
DefaultMaxPerMonth == 1000

Calls == 1..MaxCalls
Dates == (1..MaxMonth) \X (1..MaxDay)
Phones == 1..MaxPhone
IdSpace == 1..MaxId
Limits == 1..MaxLimit
NoRow == -1
NoCall == 0

VARIABLES
    submissions,            \* table submissions as the connection sees it
    calendar_availability,  \* table calendar_availability: the dates with an 'open' row
    settings,               \* table settings: key -> value, NoRow when the key is absent
    inTxn,                  \* the connection has an open transaction
    journal,                \* the tables as they were when the open transaction began
    txnOwner,               \* the call whose BEGIN opened the open transaction
    pc,                     \* per call: the statement it has issued and not yet seen complete
    data,                   \* per call: the argument of addSubmission
    limits,                 \* per call: maxBookingsPerDay / maxBookingsPerMonth it read
    newId,                  \* per call: the id it generated
    result,                 \* per call: what the promise was settled with
    began,                  \* the calls in the order their BEGIN statements executed
    opened,                 \* the calls whose BEGIN opened a transaction
    adminOps,               \* number of admin writes so far
    exited,                 \* the process has exited
    today,                  \* the current date, as a day number
    written,                \* the limits the completed setSetting calls wrote last
    availability,           \* what the last isDateAvailable call returned
    finder                  \* the getNextAvailableDate call: its locals and its return value

vars == <<submissions, calendar_availability, settings, inTxn, journal, txnOwner,
          pc, data, limits, newId, result, began, opened, adminOps, exited,
          today, written, availability, finder>>

tables == <<submissions, calendar_availability, settings>>
locals == <<data, limits, newId>>
side == <<today, written, availability, finder>>

Tables == [submissions |-> submissions,
           calendar_availability |-> calendar_availability,
           settings |-> settings]

\* What is on disk: an open transaction's writes are not.
Committed == IF inTxn THEN journal ELSE Tables

\* ----- the queries of addSubmission -----

\* substring(0, 7) of 'YYYY-MM-DD'
bookingMonthStr(bookingDateStr) == bookingDateStr[1]

\* parseInt(settings[key] || default, 10)
SettingOr(value, default) == IF value = NoRow THEN default ELSE value

\* SELECT COUNT(*) ... strftime('%Y-%m', bookingDate) = ? AND (upiNumber = ? OR
\* whatsappNumber = ?) AND status != 'archived' AND status != 'rejected'
MonthlyCount(rows, month, upi, whatsapp) ==
    Cardinality({r \in rows : /\ bookingMonthStr(r.bookingDate) = month
                              /\ (r.upiNumber = upi \/ r.whatsappNumber = whatsapp)
                              /\ r.status # "archived"
                              /\ r.status # "rejected"})

\* the daily count had it left out the rejected rows as the monthly count does
DailyCount_SkipsRejected(rows, date) ==
    Cardinality({r \in rows : r.bookingDate = date
                                /\ r.status \notin {"archived", "rejected"}})

\* SELECT COUNT(*) ... date(bookingDate) = date(?) AND status != 'archived'
DailyCount(rows, date) ==
    Cardinality({r \in rows : r.bookingDate = date /\ r.status # "archived"})

\* ----- dates as day numbers -----

\* The days of the modelled calendar are numbered 1..NumDays in date order;
\* day numbers past NumDays are dates after the last modelled date.
NumDays == MaxMonth * MaxDay
DayIndex(date) == (date[1] - 1) * MaxDay + date[2]
DateAt(i) == <<((i - 1) \div MaxDay) + 1, ((i - 1) % MaxDay) + 1>>

\* bookingDateStr of a request without bookingDate: null
NoDate == <<0, 0>>

\* ----- initial state -----

NoLimits == [max_bookings_per_day |-> NoRow, max_bookings_per_month |-> NoRow]
NoView == [date |-> NoDate, available |-> FALSE, count |-> 0, maxBookings |-> 0,
           remaining |-> 0, status |-> "none"]
FinderIdle == [pc |-> "idle", start |-> 0, maxDaysToSearch |-> 0, maxBookings |-> 0,
               openDateSet |-> {}, i |-> 0, date |-> NoDate, count |-> 0,
               remaining |-> 0, writes |-> 0]

Statuses == {"pending", "reviewed", "archived", "rejected"}

\* The ledger before the calls: empty, or one earlier booking in any status.
InitialLedgers ==
    {{}} \cup {{[id |-> 1, bookingDate |-> <<1, 1>>, upiNumber |-> 1,
                 whatsappNumber |-> 1, status |-> s, by |-> NoCall]} : s \in Statuses}

Init ==
    /\ submissions \in InitialLedgers
    /\ calendar_availability = Dates
    /\ settings \in [max_bookings_per_day : Limits, max_bookings_per_month : Limits]
    /\ inTxn = FALSE
    /\ journal = [submissions |-> {}, calendar_availability |-> {},
                  settings |-> [max_bookings_per_day |-> NoRow,
                                max_bookings_per_month |-> NoRow]]
    /\ txnOwner = NoCall
    /\ pc = [c \in Calls |-> "idle"]
    /\ data = [c \in Calls |-> [bookingDate |-> <<1, 1>>, upiNumber |-> 1,
                                whatsappNumber |-> 1]]
    /\ limits = [c \in Calls |-> [day |-> 0, month |-> 0]]
    /\ newId = [c \in Calls |-> 0]
    /\ result = [c \in Calls |-> "pending"]
    /\ began = <<>>
    /\ opened = {}
    /\ adminOps = 0
    /\ exited = FALSE
    /\ today = 1
    /\ written = NoLimits
    /\ availability = NoView
    /\ finder = FinderIdle

\* ----- helpers of the steps -----

Goto(c, label) == pc' = [pc EXCEPT ![c] = label]

\* this.db.run('ROLLBACK'); return reject(...): the ROLLBACK is only issued here
Reject(c, kind) ==
    /\ Goto(c, "rollback")
    /\ result' = [result EXCEPT ![c] = kind]

\* ----- addSubmission -----

\* addSubmission(data): db.serialize queues BEGIN EXCLUSIVE and the settings query
AddSubmission(c, d) ==
    /\ ~exited
    /\ pc[c] = "idle"
    /\ data' = [data EXCEPT ![c] = d]
    /\ Goto(c, "begin")
    /\ UNCHANGED <<tables, inTxn, journal, txnOwner, limits, newId, result, began,
                   opened, adminOps, exited, side>>

\* BEGIN EXCLUSIVE TRANSACTION on a connection with no open transaction
Begin(c) ==
    /\ ~exited
    /\ pc[c] = "begin"
    /\ ~inTxn
    /\ inTxn' = TRUE
    /\ journal' = Tables
    /\ txnOwner' = c
    /\ began' = Append(began, c)
    /\ opened' = opened \cup {c}
    /\ Goto(c, "settings")
    /\ UNCHANGED <<tables, locals, result, adminOps, exited, side>>

\* BEGIN EXCLUSIVE TRANSACTION while a transaction is open on the connection:
\* "cannot start a transaction within a transaction".  The statement was issued
\* without a callback, so addSubmission never sees the error and the settings
\* query queued behind it runs all the same.
BeginRefused(c) ==
    /\ ~exited
    /\ pc[c] = "begin"
    /\ inTxn
    /\ began' = Append(began, c)
    /\ Goto(c, "settings")
    /\ UNCHANGED <<tables, inTxn, journal, txnOwner, locals, result, opened, adminOps,
                   exited, side>>

\* SELECT key, value FROM settings ...; its callback issues the calendar query
ReadSettings(c) ==
    /\ ~exited
    /\ pc[c] = "settings"
    /\ limits' = [limits EXCEPT ![c] =
            [day |-> SettingOr(settings.max_bookings_per_day, DefaultMaxPerDay),
             month |-> SettingOr(settings.max_bookings_per_month, DefaultMaxPerMonth)]]
    /\ Goto(c, "calendar")
    /\ UNCHANGED <<tables, inTxn, journal, txnOwner, data, newId, result, began,
                   opened, adminOps, exited, side>>

\* CheckCalendar with the test for a missing row left out
CheckCalendar_MissingRowPasses(c) ==
    /\ ~exited
    /\ pc[c] = "calendar"
    /\ Goto(c, "month")
    /\ UNCHANGED <<tables, inTxn, journal, txnOwner, locals, result, began, opened,
                   adminOps, exited, side>>

\* SELECT status FROM calendar_availability WHERE date = ?; and its callback
CheckCalendar(c) ==
    /\ ~exited
    /\ pc[c] = "calendar"
    /\ IF data[c].bookingDate \notin calendar_availability
          THEN Reject(c, "DateNotOpen")
          ELSE Goto(c, "month") /\ UNCHANGED result
    /\ UNCHANGED <<tables, inTxn, journal, txnOwner, locals, began, opened, adminOps, exited, side>>

\* CheckMonth with > for >=
CheckMonth_OffByOne(c) ==
    /\ ~exited
    /\ pc[c] = "month"
    /\ IF MonthlyCount(submissions, bookingMonthStr(data[c].bookingDate),
                       data[c].upiNumber, data[c].whatsappNumber) > limits[c].month
          THEN Reject(c, "MonthlyCapacityExceeded")
          ELSE Goto(c, "day") /\ UNCHANGED result
    /\ UNCHANGED <<tables, inTxn, journal, txnOwner, locals, began, opened, adminOps, exited, side>>

\* the monthly count of the caller's phone numbers; and its callback
CheckMonth(c) ==
    /\ ~exited
    /\ pc[c] = "month"
    /\ IF MonthlyCount(submissions, bookingMonthStr(data[c].bookingDate),
                       data[c].upiNumber, data[c].whatsappNumber) >= limits[c].month
          THEN Reject(c, "MonthlyCapacityExceeded")
          ELSE Goto(c, "day") /\ UNCHANGED result
    /\ UNCHANGED <<tables, inTxn, journal, txnOwner, locals, began, opened, adminOps, exited, side>>

\* CheckDay rejecting a full date without issuing the ROLLBACK
CheckDay_NoRollback(c) ==
    /\ ~exited
    /\ pc[c] = "day"
    /\ IF DailyCount(submissions, data[c].bookingDate) >= limits[c].day
          THEN /\ Goto(c, "done")
               /\ result' = [result EXCEPT ![c] = "DailyCapacityExceeded"]
               /\ UNCHANGED newId
          ELSE /\ \E id \in IdSpace : newId' = [newId EXCEPT ![c] = id]
               /\ Goto(c, "insert")
               /\ UNCHANGED result
    /\ UNCHANGED <<tables, inTxn, journal, txnOwner, data, limits, began, opened,
                   adminOps, exited, side>>

\* the daily count of the booking date; its callback generates the id and
\* issues the INSERT
CheckDay(c) ==
    /\ ~exited
    /\ pc[c] = "day"
    /\ IF DailyCount(submissions, data[c].bookingDate) >= limits[c].day
          THEN Reject(c, "DailyCapacityExceeded") /\ UNCHANGED newId
          ELSE /\ \E id \in IdSpace : newId' = [newId EXCEPT ![c] = id]
               /\ Goto(c, "insert")
               /\ UNCHANGED result
    /\ UNCHANGED <<tables, inTxn, journal, txnOwner, data, limits, began, opened,
                   adminOps, exited, side>>

\* INSERT INTO submissions ...: id is the primary key
Insert(c) ==
    /\ ~exited
    /\ pc[c] = "insert"
    /\ IF \E r \in submissions : r.id = newId[c]
          THEN Reject(c, "InsertFailed") /\ UNCHANGED submissions
          ELSE /\ submissions' = submissions \cup
                      {[id |-> newId[c], bookingDate |-> data[c].bookingDate,
                        upiNumber |-> data[c].upiNumber,
                        whatsappNumber |-> data[c].whatsappNumber,
                        status |-> "pending", by |-> c]}
               /\ Goto(c, "commit")
               /\ UNCHANGED result
    /\ UNCHANGED <<calendar_availability, settings, inTxn, journal, txnOwner, locals,
                   began, opened, adminOps, exited, side>>

\* COMMIT; its callback settles the promise either way
Commit(c) ==
    /\ ~exited
    /\ pc[c] = "commit"
    /\ IF inTxn
          THEN /\ inTxn' = FALSE
               /\ txnOwner' = NoCall
               /\ result' = [result EXCEPT ![c] = "success"]
          ELSE \* "cannot commit - no transaction is active"
               /\ result' = [result EXCEPT ![c] = "CommitFailed"]
               /\ UNCHANGED <<inTxn, txnOwner>>
    /\ Goto(c, "done")
    /\ UNCHANGED <<tables, journal, locals, began, opened, adminOps, exited, side>>

\* ROLLBACK on a connection with an open transaction: everything written on the
\* connection since its BEGIN is undone
Rollback(c) ==
    /\ ~exited
    /\ pc[c] = "rollback"
    /\ inTxn
    /\ submissions' = journal.submissions
    /\ calendar_availability' = journal.calendar_availability
    /\ settings' = journal.settings
    /\ inTxn' = FALSE
    /\ txnOwner' = NoCall
    /\ Goto(c, "done")
    /\ UNCHANGED <<journal, locals, result, began, opened, adminOps,
                   exited, side>>

\* ROLLBACK with no open transaction: "cannot rollback - no transaction is
\* active", again on a statement without a callback
RollbackRefused(c) ==
    /\ ~exited
    /\ pc[c] = "rollback"
    /\ ~inTxn
    /\ Goto(c, "done")
    /\ UNCHANGED <<tables, inTxn, journal, txnOwner, locals, result, began, opened,
                   adminOps, exited, side>>

\* The error of a statement issued without a callback surfaces as an uncaught
\* exception of the process, whose handler exits: the open transaction is lost
\* and no call in flight is ever settled.
UncaughtException(c) ==
    /\ ~exited
    /\ \/ pc[c] = "begin" /\ inTxn
       \/ pc[c] = "rollback" /\ ~inTxn
    /\ exited' = TRUE
    /\ submissions' = Committed.submissions
    /\ calendar_availability' = Committed.calendar_availability
    /\ settings' = Committed.settings
    /\ inTxn' = FALSE
    /\ txnOwner' = NoCall
    /\ UNCHANGED <<journal, pc, locals, result, began, opened, adminOps, side>>

\* ----- admin -----

\* setCalendarDateStatus whose DELETE has no WHERE clause
setCalendarDateStatus_DeletesAll(date, status) ==
    /\ calendar_availability' = IF status = "open"
                                   THEN calendar_availability \cup {date}
                                   ELSE {}
    /\ UNCHANGED <<submissions, settings>>

\* setCalendarDateStatus(date, status): INSERT OR REPLACE of the 'open' row, or
\* DELETE of the row of the date for any other status
setCalendarDateStatus(date, status) ==
    /\ calendar_availability' = IF status = "open"
                                   THEN calendar_availability \cup {date}
                                   ELSE calendar_availability \ {date}
    /\ UNCHANGED <<submissions, settings>>

\* a call of setCalendarDateStatus: one statement on the same connection
SetCalendarDateStatus(date, status) ==
    /\ ~exited
    /\ adminOps < MaxAdminOps
    /\ adminOps' = adminOps + 1
    /\ setCalendarDateStatus(date, status)
    /\ UNCHANGED <<inTxn, journal, txnOwner, pc, locals, result,
                   began, opened, exited, side>>

Requests == [bookingDate : Dates, upiNumber : Phones, whatsappNumber : Phones]

Next ==
    \/ \E c \in Calls, d \in Requests : AddSubmission(c, d)
    \/ \E c \in Calls : Begin(c)
    \/ \E c \in Calls : BeginRefused(c)
    \/ \E c \in Calls : ReadSettings(c)
    \/ \E c \in Calls : CheckCalendar(c)
    \/ \E c \in Calls : CheckMonth(c)
    \/ \E c \in Calls : CheckDay(c)
    \/ \E c \in Calls : Insert(c)
    \/ \E c \in Calls : Commit(c)
    \/ \E c \in Calls : Rollback(c)
    \/ \E c \in Calls : RollbackRefused(c)
    \/ \E c \in Calls : UncaughtException(c)
    \/ \E date \in Dates, status \in {"open", "closed"} : SetCalendarDateStatus(date, status)

Spec == Init /\ [][Next]_vars

\* ----- vocabulary of the properties -----

Rejections == {"DateNotOpen", "MonthlyCapacityExceeded", "DailyCapacityExceeded",
               "InsertFailed", "CommitFailed"}

maxPerDay == SettingOr(Committed.settings.max_bookings_per_day, DefaultMaxPerDay)
maxPerMonth == SettingOr(Committed.settings.max_bookings_per_month, DefaultMaxPerMonth)

\* no call is in flight: every statement any call issued has completed
Quiescent == ~exited /\ \A c \in Calls : pc[c] \in {"idle", "done"}
AllDone == ~exited /\ \A c \in Calls : pc[c] = "done"

\* the rows that were there before any call
Earlier(rows) == {r \in rows : r.by = NoCall}
RowsOf(rows, c) == {r \in rows : r.by = c}

SharePhone(c1, c2) ==
    \/ data[c1].upiNumber = data[c2].upiNumber
    \/ data[c1].whatsappNumber = data[c2].whatsappNumber

Min(a, b) == IF a <= b THEN a ELSE b
Max(a, b) == IF a >= b THEN a ELSE b

Index(seq, x) == CHOOSE i \in 1..Len(seq) : seq[i] = x

C4_OpenAtCommit ==
    [][\A c \in Calls :
          (pc[c] = "commit" /\ result'[c] = "success")
              => data[c].bookingDate \in calendar_availability]_vars

\* ----- C5 -----
\* C5: a call whose calendar query finds no open entry for its booking date is
\* rejected with DateNotOpen by that very step, whatever the daily and monthly
\* counts are, and a call rejected so has no row in the ledger.
C5_Gate ==
    /\ [][\A c \in Calls :
            (/\ pc[c] = "calendar"
             /\ pc'[c] # "calendar"
             /\ data[c].bookingDate \notin calendar_availability)
            => /\ result'[c] = "DateNotOpen"
               /\ pc'[c] = "rollback"
               /\ submissions' = submissions]_vars
    /\ [](\A c \in Calls :
            result[c] = "DateNotOpen"
                => /\ pc[c] \in {"rollback", "done"}
                   /\ RowsOf(submissions, c) = {}
                   /\ RowsOf(Committed.submissions, c) = {})

\* a call was turned away at the gate although its date had room and its
\* identity had none of its monthly bookings used
C5_Witness ==
    \E c \in Calls :
        /\ result[c] = "DateNotOpen"
        /\ pc[c] = "done"
        /\ DailyCount(submissions, data[c].bookingDate) < maxPerDay
        /\ MonthlyCount(submissions, bookingMonthStr(data[c].bookingDate),
                        data[c].upiNumber, data[c].whatsappNumber) = 0

\* ----- C6 -----
\* C6: a call whose monthly count finds the caller's phone numbers already on
\* max_bookings_per_month counted submissions of the booking month is rejected
\* with MonthlyCapacityExceeded by that very step and inserts nothing, also
\* when its date is open and has free daily capacity.
C6_MonthlyGate ==
    /\ [][\A c \in Calls :
            (/\ pc[c] = "month"
             /\ pc'[c] # "month"
             /\ MonthlyCount(submissions, bookingMonthStr(data[c].bookingDate),
                             data[c].upiNumber, data[c].whatsappNumber)
                    >= SettingOr(settings.max_bookings_per_month, DefaultMaxPerMonth))
            => /\ result'[c] = "MonthlyCapacityExceeded"
               /\ pc'[c] = "rollback"
               /\ submissions' = submissions]_vars
    /\ [](\A c \in Calls :
            result[c] = "MonthlyCapacityExceeded"
                => /\ pc[c] \in {"rollback", "done"}
                   /\ RowsOf(submissions, c) = {}
                   /\ RowsOf(Committed.submissions, c) = {})

\* the caller is turned away on an open date that differs from the date of its
\* earlier booking and still has room
C6_Witness ==
    \E c \in Calls :
        /\ result[c] = "MonthlyCapacityExceeded"
        /\ pc[c] = "done"
        /\ ~inTxn
        /\ data[c].bookingDate \in calendar_availability
        /\ DailyCount(submissions, data[c].bookingDate) < maxPerDay
        /\ \E r \in submissions :
              /\ r.bookingDate # data[c].bookingDate
              /\ bookingMonthStr(r.bookingDate) = bookingMonthStr(data[c].bookingDate)
              /\ r.upiNumber = data[c].upiNumber

C9_SettledAfterTxnEnd ==
    \A c \in Calls : result[c] # "pending" => pc[c] = "done"

\* ----- C10 -----
\* C10: of two calls competing for the last free slot of an open date, the one
\* whose BEGIN EXCLUSIVE ran first is accepted and the other is told the date
\* is fully booked; and the later call's checks never run between the earlier
\* call's daily count and its INSERT.  (Stated for the runs in which the
\* calendar was not touched and the generated ids did not clash.)
LastSlot(a, b) ==
    /\ a # b
    /\ data[a].bookingDate = data[b].bookingDate
    /\ ~SharePhone(a, b)
    /\ DailyCount(Earlier(Committed.submissions), data[a].bookingDate) = maxPerDay - 1
    /\ \A c \in {a, b} :
          MonthlyCount(Earlier(Committed.submissions),
                       bookingMonthStr(data[c].bookingDate),
                       data[c].upiNumber, data[c].whatsappNumber) < maxPerMonth

BeganBefore(a, b) ==
    /\ \E i \in 1..Len(began) : began[i] = a
    /\ \E i \in 1..Len(began) : began[i] = b
    /\ Index(began, a) < Index(began, b)

getSetting(value, defaultValue) == IF value = NoRow THEN defaultValue ELSE value

\* isDateAvailable reporting count and limit of a date that is not open
isDateAvailable_CountsClosed(date) ==
    LET count == DailyCount(submissions, date)
        maxBookings == getSetting(settings.max_bookings_per_day, DefaultMaxPerDay)
    IN  IF date \notin calendar_availability
           THEN [date |-> date, available |-> FALSE, count |-> count,
                 maxBookings |-> maxBookings, remaining |-> maxBookings - count,
                 status |-> "closed"]
           ELSE [date |-> date, available |-> count < maxBookings, count |-> count,
                 maxBookings |-> maxBookings, remaining |-> maxBookings - count,
                 status |-> "open"]

\* isDateAvailable counting the archived rows as well
isDateAvailable_CountsArchived(date) ==
    IF date \notin calendar_availability
       THEN [date |-> date, available |-> FALSE, count |-> 0, maxBookings |-> 0,
             remaining |-> 0, status |-> "closed"]
       ELSE LET count == Cardinality({r \in submissions : r.bookingDate = date})
                maxBookings == getSetting(settings.max_bookings_per_day, DefaultMaxPerDay)
            IN  [date |-> date, available |-> count < maxBookings, count |-> count,
                 maxBookings |-> maxBookings, remaining |-> maxBookings - count,
                 status |-> "open"]

\* isDateAvailable(date), on the tables as the connection shows them
isDateAvailable(date) ==
    IF date \notin calendar_availability
       THEN [date |-> date, available |-> FALSE, count |-> 0, maxBookings |-> 0,
             remaining |-> 0, status |-> "closed"]
       ELSE LET count == DailyCount(submissions, date)
                maxBookings == getSetting(settings.max_bookings_per_day, DefaultMaxPerDay)
            IN  [date |-> date, available |-> count < maxBookings, count |-> count,
                 maxBookings |-> maxBookings, remaining |-> maxBookings - count,
                 status |-> "open"]

\* validateBookingDate(bookingDate): which of its returns is taken
validateBookingDate(bookingDate) ==
    IF DayIndex(bookingDate) < today
       THEN "PastDate"
       ELSE LET a == isDateAvailable(bookingDate)
            IN  IF a.available THEN "valid"
                ELSE IF a.status = "closed" THEN "BookingNotYetOpen"
                ELSE "DateFullyBooked"

\* createSubmission(req, res) up to its first write: the booking date, when the
\* body has one, is validated and a failed validation is answered at once
CreateSubmission(c, body) ==
    /\ ~exited
    /\ pc[c] = "idle"
    /\ data' = [data EXCEPT ![c] = body]
    /\ LET validation == IF body.bookingDate = NoDate
                            THEN "valid"
                            ELSE validateBookingDate(body.bookingDate)
       IN  IF validation = "valid"
              THEN Goto(c, "backup") /\ UNCHANGED result
              ELSE Goto(c, "done") /\ result' = [result EXCEPT ![c] = validation]
    /\ UNCHANGED <<tables, inTxn, journal, txnOwner, limits, newId, began, opened,
                   adminOps, exited, side>>

\* await backupService.createBackup() returns and addSubmission is called
CreateBackup(c) ==
    /\ ~exited
    /\ pc[c] = "backup"
    /\ Goto(c, "begin")
    /\ UNCHANGED <<tables, inTxn, journal, txnOwner, locals, result, began, opened,
                   adminOps, exited, side>>

\* the date changes: new Date() reads the next day from now on
MidnightPasses ==
    /\ ~exited
    /\ today < NumDays
    /\ today' = today + 1
    /\ UNCHANGED <<tables, inTxn, journal, txnOwner, pc, locals, result, began, opened,
                   adminOps, exited, written, availability, finder>>

\* a call of isDateAvailable(date) and what it returns
IsDateAvailable(date) ==
    /\ ~exited
    /\ availability' = isDateAvailable(date)
    /\ UNCHANGED <<tables, inTxn, journal, txnOwner, pc, locals, result, began, opened,
                   adminOps, exited, today, written, finder>>

\* updateSettings: Math.max(1, Math.min(100, parseInt(maxBookingsPerDay) || 3)) and
\* Math.max(1, Math.min(10000, parseInt(maxBookingsPerMonth) || 1000))
ClampSetting(key, input) ==
    IF key = "max_bookings_per_day"
       THEN Max(1, Min(100, IF input = 0 THEN 3 ELSE input))
       ELSE Max(1, Min(10000, IF input = 0 THEN 1000 ELSE input))

\* updateSettings for one key of the body: setSetting(key, value), one
\* INSERT OR REPLACE on the shared connection
UpdateSettings(key, input) ==
    /\ ~exited
    /\ adminOps < MaxAdminOps
    /\ adminOps' = adminOps + 1
    /\ settings' = [settings EXCEPT ![key] = ClampSetting(key, input)]
    /\ written' = [written EXCEPT ![key] = ClampSetting(key, input)]
    /\ UNCHANGED <<submissions, calendar_availability, inTxn, journal, txnOwner, pc,
                   locals, result, began, opened, exited, today, availability, finder>>

\* deleteSubmission(id): DELETE FROM submissions WHERE id = ?  (with no such row
\* nothing is written and the call throws 'Submission not found')
DeleteSubmission(id) ==
    /\ ~exited
    /\ adminOps < MaxAdminOps
    /\ \E r \in submissions : r.id = id
    /\ adminOps' = adminOps + 1
    /\ submissions' = {r \in submissions : r.id # id}
    /\ UNCHANGED <<calendar_availability, settings, inTxn, journal, txnOwner, pc, locals,
                   result, began, opened, exited, side>>

\* ----- one operation at a time -----
\* The addSubmission calls run one after the other, an admin may delete a
\* submission between two calls, and the availability of a date is queried once,
\* at any moment when no call is in flight; the run is followed up to that query.

\* the stored limits: seeded, set by an admin, or missing (a database whose
\* settings rows were lost)
StoredLimits == [max_bookings_per_day : Limits \cup {NoRow},
                 max_bookings_per_month : Limits \cup {NoRow}]

\* a caller who gives one phone number for both fields
OwnPhone == {d \in Requests : d.upiNumber = d.whatsappNumber}

InitSeq ==
    /\ submissions \in InitialLedgers
    /\ calendar_availability \in SUBSET Dates
    /\ settings \in StoredLimits
    /\ inTxn = FALSE
    /\ journal = [submissions |-> {}, calendar_availability |-> {},
                  settings |-> NoLimits]
    /\ txnOwner = NoCall
    /\ pc = [c \in Calls |-> "idle"]
    /\ data = [c \in Calls |-> [bookingDate |-> <<1, 1>>, upiNumber |-> 1,
                                whatsappNumber |-> 1]]
    /\ limits = [c \in Calls |-> [day |-> 0, month |-> 0]]
    /\ newId = [c \in Calls |-> 0]
    /\ result = [c \in Calls |-> "pending"]
    /\ began = <<>>
    /\ opened = {}
    /\ adminOps = 0
    /\ exited = FALSE
    /\ today = 1
    /\ written = NoLimits
    /\ availability = NoView
    /\ finder = FinderIdle

NotQueried == availability = NoView

SeqAddSubmission(c, d) == Quiescent /\ NotQueried /\ AddSubmission(c, d)
SeqDeleteSubmission(id) == Quiescent /\ NotQueried /\ DeleteSubmission(id)
SeqIsDateAvailable(date) == Quiescent /\ NotQueried /\ IsDateAvailable(date)

NextSeq ==
    \/ \E c \in Calls, d \in OwnPhone : SeqAddSubmission(c, d)
    \/ \E c \in Calls : Begin(c)
    \/ \E c \in Calls : ReadSettings(c)
    \/ \E c \in Calls : CheckCalendar(c)
    \/ \E c \in Calls : CheckMonth(c)
    \/ \E c \in Calls : CheckDay(c)
    \/ \E c \in Calls : Insert(c)
    \/ \E c \in Calls : Commit(c)
    \/ \E c \in Calls : Rollback(c)
    \/ \E id \in IdSpace : SeqDeleteSubmission(id)
    \/ \E date \in Dates : SeqIsDateAvailable(date)

SpecSeq == InitSeq /\ [][NextSeq]_vars

\* ----- requests through createSubmission, while the date changes -----
\* The requests are handled one after the other by createSubmission; midnight
\* may pass and the admin may open or close a date at any moment.  The booking
\* date of a body is a calendar date 'YYYY-MM-DD' and the server's time zone
\* is not behind UTC, so that the local day validateBookingDate compares and
\* the UTC day addSubmission stores are the same date.

\* a body with a booking date, or without one
Bodies == OwnPhone \cup
          {[bookingDate |-> NoDate, upiNumber |-> p, whatsappNumber |-> p] : p \in Phones}

InitClock ==
    /\ submissions \in InitialLedgers
    /\ calendar_availability \in SUBSET Dates
    /\ settings \in [max_bookings_per_day : Limits, max_bookings_per_month : Limits]
    /\ inTxn = FALSE
    /\ journal = [submissions |-> {}, calendar_availability |-> {},
                  settings |-> NoLimits]
    /\ txnOwner = NoCall
    /\ pc = [c \in Calls |-> "idle"]
    /\ data = [c \in Calls |-> [bookingDate |-> <<1, 1>>, upiNumber |-> 1,
                                whatsappNumber |-> 1]]
    /\ limits = [c \in Calls |-> [day |-> 0, month |-> 0]]
    /\ newId = [c \in Calls |-> 0]
    /\ result = [c \in Calls |-> "pending"]
    /\ began = <<>>
    /\ opened = {}
    /\ adminOps = 0
    /\ exited = FALSE
    /\ today = 1
    /\ written = NoLimits
    /\ availability = NoView
    /\ finder = FinderIdle

NextRequest(c, body) == Quiescent /\ CreateSubmission(c, body)

NextClock ==
    \/ \E c \in Calls, body \in Bodies : NextRequest(c, body)
    \/ \E c \in Calls : CreateBackup(c)
    \/ \E c \in Calls : Begin(c)
    \/ \E c \in Calls : ReadSettings(c)
    \/ \E c \in Calls : CheckCalendar(c)
    \/ \E c \in Calls : CheckMonth(c)
    \/ \E c \in Calls : CheckDay(c)
    \/ \E c \in Calls : Insert(c)
    \/ \E c \in Calls : Commit(c)
    \/ \E c \in Calls : Rollback(c)
    \/ MidnightPasses
    \/ \E date \in Dates, status \in {"open", "closed"} : SetCalendarDateStatus(date, status)

SpecClock == InitClock /\ [][NextClock]_vars

\* ----- C11 -----
\* a request is answered 'Past dates cannot be booked' without a statement
\* having been issued for it
PastDateRejected(c) ==
    (pc[c] = "idle" /\ pc'[c] # "idle" /\ DayIndex(data'[c].bookingDate) < today
        /\ data'[c].bookingDate # NoDate)
    => /\ pc'[c] = "done"
       /\ result'[c] = "PastDate"
       /\ UNCHANGED <<tables, inTxn, journal, began, opened>>

\* the COMMIT that makes a booking durable finds its date not in the past
NotPastAtCommit(c) ==
    (pc[c] = "commit" /\ result'[c] = "success")
    => DayIndex(data[c].bookingDate) >= today

\* C11: a request whose bookingDate precedes the current date is rejected with
\* PastDate before any transaction is begun and changes no stored state, and
\* no submission is committed whose bookingDate is earlier than the date
\* current when it is accepted.
C11_NoPastBooking ==
    [][\A c \in Calls : PastDateRejected(c) /\ NotPastAtCommit(c)]_vars

\* the first half of C11 alone
C11_PastDateRejected == [][\A c \in Calls : PastDateRejected(c)]_vars

\* ----- getNextAvailableDate -----
\* One call of getNextAvailableDate, statement by statement, while the admin
\* writes on the same connection.  finder.writes is the number of admin writes
\* that had completed when the call began.

\* getNextAvailableDate(startDate, maxDaysToSearch) is called
GetNextAvailableDate(startDate, maxDaysToSearch) ==
    /\ ~exited
    /\ finder.pc = "idle"
    /\ finder' = [finder EXCEPT !.pc = "setting", !.start = DayIndex(startDate),
                                !.maxDaysToSearch = maxDaysToSearch,
                                !.writes = adminOps]
    /\ UNCHANGED <<tables, inTxn, journal, txnOwner, pc, locals, result, began, opened,
                   adminOps, exited, today, written, availability>>

\* await this.getSetting('max_bookings_per_day', '3')
FinderReadSetting ==
    /\ ~exited
    /\ finder.pc = "setting"
    /\ finder' = [finder EXCEPT !.pc = "prefetch",
            !.maxBookings = getSetting(settings.max_bookings_per_day, DefaultMaxPerDay)]
    /\ UNCHANGED <<tables, inTxn, journal, txnOwner, pc, locals, result, began, opened,
                   adminOps, exited, today, written, availability>>

\* SELECT date FROM calendar_availability WHERE date >= ? AND date <= ? AND
\* status = 'open', with start and start + maxDaysToSearch
FinderPrefetch ==
    /\ ~exited
    /\ finder.pc = "prefetch"
    /\ finder' = [finder EXCEPT !.pc = "scan", !.i = 0,
            !.openDateSet = {d \in calendar_availability :
                                /\ DayIndex(d) >= finder.start
                                /\ DayIndex(d) <= finder.start + finder.maxDaysToSearch}]
    /\ UNCHANGED <<tables, inTxn, journal, txnOwner, pc, locals, result, began, opened,
                   adminOps, exited, today, written, availability>>

\* the values of i from the current one on whose date is in openDateSet
OpenAhead == {j \in finder.i .. (finder.maxDaysToSearch - 1) :
                 DateAt(finder.start + j) \in finder.openDateSet}

\* FinderScan with <= for <
FinderScan_AtMost ==
    /\ ~exited
    /\ finder.pc = "scan"
    /\ IF OpenAhead = {}
          THEN finder' = [finder EXCEPT !.pc = "returned", !.date = NoDate]
          ELSE LET j == CHOOSE k \in OpenAhead : \A l \in OpenAhead : k <= l
                   checkDateStr == DateAt(finder.start + j)
                   count == DailyCount(submissions, checkDateStr)
               IN  IF count <= finder.maxBookings
                      THEN finder' = [finder EXCEPT !.pc = "returned",
                                         !.date = checkDateStr, !.count = count,
                                         !.remaining = finder.maxBookings - count]
                      ELSE finder' = [finder EXCEPT !.i = j + 1]
    /\ UNCHANGED <<tables, inTxn, journal, txnOwner, pc, locals, result, began, opened,
                   adminOps, exited, today, written, availability>>

\* the loop up to its next await and what follows it: the dates not in
\* openDateSet are skipped, the count of the first one that is in it is
\* queried, and the date is returned if the count is below maxBookings;
\* null is returned when i reaches maxDaysToSearch
FinderScan ==
    /\ ~exited
    /\ finder.pc = "scan"
    /\ IF OpenAhead = {}
          THEN finder' = [finder EXCEPT !.pc = "returned", !.date = NoDate]
          ELSE LET j == CHOOSE k \in OpenAhead : \A l \in OpenAhead : k <= l
                   checkDateStr == DateAt(finder.start + j)
                   count == DailyCount(submissions, checkDateStr)
               IN  IF count < finder.maxBookings
                      THEN finder' = [finder EXCEPT !.pc = "returned",
                                         !.date = checkDateStr, !.count = count,
                                         !.remaining = finder.maxBookings - count]
                      ELSE finder' = [finder EXCEPT !.i = j + 1]
    /\ UNCHANGED <<tables, inTxn, journal, txnOwner, pc, locals, result, began, opened,
                   adminOps, exited, today, written, availability>>

SettingKeys == {"max_bookings_per_day", "max_bookings_per_month"}
SettingInputs == 0..MaxLimit
Horizons == 0..MaxHorizon

NextFind ==
    \/ \E startDate \in Dates, maxDaysToSearch \in Horizons :
            GetNextAvailableDate(startDate, maxDaysToSearch)
    \/ FinderReadSetting
    \/ FinderPrefetch
    \/ FinderScan
    \/ \E date \in Dates, status \in {"open", "closed"} : SetCalendarDateStatus(date, status)
    \/ \E key \in SettingKeys, input \in SettingInputs : UpdateSettings(key, input)
    \/ \E id \in IdSpace : DeleteSubmission(id)

SpecFind == InitSeq /\ [][NextFind]_vars

\* ----- C12 -----
\* the prefetch reads the dates that are open at that moment
OpenWhenRead ==
    (finder.pc = "prefetch" /\ finder'.pc = "scan")
    => finder'.openDateSet \subseteq calendar_availability

\* the limit of the call is the one stored when the call reads it
LimitWhenRead ==
    (finder.pc = "setting" /\ finder'.pc = "prefetch")
    => finder'.maxBookings = SettingOr(settings.max_bookings_per_day, DefaultMaxPerDay)

\* the step that returns a date
ReturnsDate ==
    (finder.pc = "scan" /\ finder'.pc = "returned" /\ finder'.date # NoDate)
    => /\ DayIndex(finder'.date) >= finder.start
       /\ DayIndex(finder'.date) <= finder.start + finder.maxDaysToSearch
       /\ finder'.date \in finder.openDateSet
       /\ finder'.count = Cardinality({r \in submissions :
                              r.bookingDate = finder'.date /\ r.status # "archived"})
       /\ finder'.count < finder.maxBookings
       /\ finder'.remaining = finder.maxBookings - finder'.count
       /\ finder'.remaining >= 1

\* C12: a date returned by getNextAvailableDate(startDate, maxDaysToSearch) lies
\* in [startDate, startDate + maxDaysToSearch], was open when the calendar was
\* read, had a non-archived count below the limit of the call when it was
\* counted, and comes with remaining = limit - count >= 1.
C12_ReturnedDate == [][OpenWhenRead /\ LimitWhenRead /\ ReturnsDate]_vars

\* a later date is returned after an earlier one was passed over, and an admin
\* write ran during the call
C12_Witness ==
    /\ finder.pc = "returned"
    /\ finder.date # NoDate
    /\ DayIndex(finder.date) > finder.start
    /\ adminOps > finder.writes

\* ----- C13 -----
\* the dates of [startDate, startDate + maxDaysToSearch] that are open and
\* below the limit
Qualifying ==
    {d \in Dates : /\ DayIndex(d) >= finder.start
                   /\ DayIndex(d) <= finder.start + finder.maxDaysToSearch
                   /\ d \in calendar_availability
                   /\ DailyCount(submissions, d) <
                          SettingOr(settings.max_bookings_per_day, DefaultMaxPerDay)}

\* C13: with no write during the call, getNextAvailableDate returns the
\* earliest date of [startDate, startDate + maxDaysToSearch], both ends
\* included, that is open and below the limit, and null only when there is none.
C13_Earliest ==
    (finder.pc = "returned" /\ finder.writes = adminOps)
    => IF Qualifying = {}
          THEN finder.date = NoDate
          ELSE /\ finder.date \in Qualifying
               /\ \A d \in Qualifying : DayIndex(finder.date) <= DayIndex(d)

\* ----- C14 -----
\* the step with which call c settles and has no statement left
Completes(c) == pc[c] \notin {"idle", "done"} /\ pc'[c] = "done"

\* the ledger as it was when call c was issued, seen from the step with which
\* c completes: nothing but c wrote in between
LedgerBefore(c) == {r \in submissions' : r.by # c}

\* what isDateAvailable(data[c].bookingDate) returned just before c was issued
AvailableBefore(c) ==
    /\ data[c].bookingDate \in calendar_availability
    /\ Cardinality({r \in LedgerBefore(c) :
            r.bookingDate = data[c].bookingDate /\ r.status # "archived"})
         < getSetting(settings.max_bookings_per_day, DefaultMaxPerDay)

UnderMonthlyCapBefore(c) ==
    MonthlyCount(LedgerBefore(c), bookingMonthStr(data[c].bookingDate),
                 data[c].upiNumber, data[c].whatsappNumber)
        < SettingOr(settings.max_bookings_per_month, DefaultMaxPerMonth)

\* C14: with no operation in flight between the two, isDateAvailable and
\* addSubmission agree: when isDateAvailable(d) says available = false the
\* addSubmission for d is rejected, and when it says available = true and the
\* caller is under the monthly cap the addSubmission succeeds.
C14_Agreement ==
    [][\A c \in Calls : Completes(c) =>
            /\ ~AvailableBefore(c) => result'[c] \in Rejections
            /\ (AvailableBefore(c) /\ UnderMonthlyCapBefore(c))
                    => result'[c] = "success"]_vars

\* C14 for the calls whose generated id is not the id of a stored row
C14_AgreementButIdClash ==
    [][\A c \in Calls : (Completes(c) /\ result'[c] # "InsertFailed") =>
            /\ ~AvailableBefore(c) => result'[c] \in Rejections
            /\ (AvailableBefore(c) /\ UnderMonthlyCapBefore(c))
                    => result'[c] = "success"]_vars

\* ----- C15 -----
\* the step is a call of isDateAvailable; availability' is what it returns
Queried == availability' # availability

\* C15: for a date with no open calendar entry isDateAvailable returns
\* available = false, status = closed, count = 0, maxBookings = 0 and
\* remaining = 0, whatever the submissions on the date and the stored limit.
C15_ClosedView ==
    [][(Queried /\ availability'.date \notin calendar_availability) =>
            /\ availability'.available = FALSE
            /\ availability'.status = "closed"
            /\ availability'.count = 0
            /\ availability'.maxBookings = 0
            /\ availability'.remaining = 0]_vars

\* a date that is not open, holds a non-archived booking and has a stored
\* limit was queried
C15_Witness ==
    /\ availability.status = "closed"
    /\ availability.date \notin calendar_availability
    /\ \E r \in submissions : r.bookingDate = availability.date /\ r.status = "pending"
    /\ settings.max_bookings_per_day # NoRow

\* ----- C16 -----
\* the addSubmission calls that were accepted for the date
AcceptedOn(date) == {c \in Calls : result[c] = "success" /\ data[c].bookingDate = date}

\* no row of the date is older than the calls and no admin write has run
InitiallyEmpty(date) ==
    /\ adminOps = 0
    /\ \A r \in submissions : r.bookingDate = date => r.by # NoCall

\* C16: for an open date isDateAvailable returns status = open, count = the
\* number of its non-archived submissions, maxBookings = the stored daily
\* limit, remaining = maxBookings - count and available = (count < maxBookings);
\* after k accepted addSubmission calls on an initially empty open date with
\* limit N it reports remaining = N - k.
C16_OpenView ==
    [][(Queried /\ availability'.date \in calendar_availability) =>
            /\ availability'.status = "open"
            /\ availability'.count =
                   Cardinality({r \in submissions : /\ r.bookingDate = availability'.date
                                                     /\ r.status # "archived"})
            /\ availability'.maxBookings =
                   SettingOr(settings.max_bookings_per_day, DefaultMaxPerDay)
            /\ availability'.remaining = availability'.maxBookings - availability'.count
            /\ availability'.available =
                   (availability'.count < availability'.maxBookings)
            /\ InitiallyEmpty(availability'.date) =>
                   availability'.remaining =
                       SettingOr(settings.max_bookings_per_day, DefaultMaxPerDay)
                         - Cardinality(AcceptedOn(availability'.date))]_vars

\* an open date that was empty, took two bookings and was queried then
C16_Witness ==
    /\ availability.status = "open"
    /\ InitiallyEmpty(availability.date)
    /\ Cardinality(AcceptedOn(availability.date)) = 2
    /\ availability.remaining = availability.maxBookings - 2

\* ----- the calendar under the admin -----
\* On a database whose calendar is still empty the admin opens and closes
\* dates, any number of times, and the availability of dates is queried in
\* between; nothing else runs.

\* the statuses the calendar controller lets through
VALID_STATUSES == {"open", "closed"}

InitCalendar ==
    /\ submissions \in InitialLedgers
    /\ calendar_availability = {}
    /\ settings \in StoredLimits
    /\ inTxn = FALSE
    /\ journal = [submissions |-> {}, calendar_availability |-> {},
                  settings |-> NoLimits]
    /\ txnOwner = NoCall
    /\ pc = [c \in Calls |-> "idle"]
    /\ data = [c \in Calls |-> [bookingDate |-> <<1, 1>>, upiNumber |-> 1,
                                whatsappNumber |-> 1]]
    /\ limits = [c \in Calls |-> [day |-> 0, month |-> 0]]
    /\ newId = [c \in Calls |-> 0]
    /\ result = [c \in Calls |-> "pending"]
    /\ began = <<>>
    /\ opened = {}
    /\ adminOps = 0
    /\ exited = FALSE
    /\ today = 1
    /\ written = NoLimits
    /\ availability = NoView
    /\ finder = FinderIdle

\* setDateStatus(req, res) with a valid date and status
SetDateStatus(date, status) ==
    /\ ~exited
    /\ setCalendarDateStatus(date, status)
    /\ UNCHANGED <<inTxn, journal, txnOwner, pc, locals, result, began, opened,
                   adminOps, exited, side>>

NextCalendar ==
    \/ \E date \in Dates, status \in VALID_STATUSES : SetDateStatus(date, status)
    \/ \E date \in Dates : IsDateAvailable(date)

SpecCalendar == InitCalendar /\ [][NextCalendar]_vars

\* ----- C17 -----
\* C17: after setCalendarDateStatus(d, s) the date d has an open entry exactly
\* when s = open, every other date is as it was, the submissions (those booked
\* on d included) and the settings are unchanged, and a call for a date that
\* already has the status asked for, as a repeated call is, changes nothing.
C17_CalendarWrite ==
    [][\A d \in Dates, s \in VALID_STATUSES : SetDateStatus(d, s) =>
            /\ (d \in calendar_availability') <=> (s = "open")
            /\ \A e \in Dates \ {d} :
                   (e \in calendar_availability') <=> (e \in calendar_availability)
            /\ submissions' = submissions
            /\ settings' = settings
            /\ ((d \in calendar_availability) <=> (s = "open"))
                   => calendar_availability' = calendar_availability]_vars

\* a date that holds a booking was open when it was queried and has been
\* closed since, while another date is open
C17_Witness ==
    /\ availability.status = "open"
    /\ availability.date \notin calendar_availability
    /\ \E r \in submissions : r.bookingDate = availability.date
    /\ calendar_availability # {}

\* ----- the limits under the admin -----
\* The addSubmission calls run one after the other, and the admin changes a
\* limit at any moment, also while a call is in flight: the INSERT OR REPLACE
\* of setSetting is one more statement on the shared connection.

InitLimits ==
    /\ submissions \in InitialLedgers
    /\ calendar_availability = Dates
    /\ settings \in StoredLimits
    /\ inTxn = FALSE
    /\ journal = [submissions |-> {}, calendar_availability |-> {},
                  settings |-> NoLimits]
    /\ txnOwner = NoCall
    /\ pc = [c \in Calls |-> "idle"]
    /\ data = [c \in Calls |-> [bookingDate |-> <<1, 1>>, upiNumber |-> 1,
                                whatsappNumber |-> 1]]
    /\ limits = [c \in Calls |-> [day |-> 0, month |-> 0]]
    /\ newId = [c \in Calls |-> 0]
    /\ result = [c \in Calls |-> "pending"]
    /\ began = <<>>
    /\ opened = {}
    /\ adminOps = 0
    /\ exited = FALSE
    /\ today = 1
    /\ written = NoLimits
    /\ availability = NoView
    /\ finder = FinderIdle

NextAddSubmission(c, d) == Quiescent /\ AddSubmission(c, d)

NextLimits ==
    \/ \E c \in Calls, d \in OwnPhone : NextAddSubmission(c, d)
    \/ \E c \in Calls : Begin(c)
    \/ \E c \in Calls : ReadSettings(c)
    \/ \E c \in Calls : CheckCalendar(c)
    \/ \E c \in Calls : CheckMonth(c)
    \/ \E c \in Calls : CheckDay(c)
    \/ \E c \in Calls : Insert(c)
    \/ \E c \in Calls : Commit(c)
    \/ \E c \in Calls : Rollback(c)
    \/ \E key \in SettingKeys, input \in SettingInputs : UpdateSettings(key, input)

SpecLimits == InitLimits /\ [][NextLimits]_vars

\* ----- C18 -----
\* the daily limit as addSubmission resolves it, and as isDateAvailable and
\* getNextAvailableDate do
ReserveMaxPerDay == SettingOr(settings.max_bookings_per_day, DefaultMaxPerDay)
ReserveMaxPerMonth == SettingOr(settings.max_bookings_per_month, DefaultMaxPerMonth)
QueryMaxPerDay == getSetting(settings.max_bookings_per_day, DefaultMaxPerDay)

\* C18: an addSubmission, isDateAvailable or getNextAvailableDate that starts
\* after an update of the limits has completed is decided against the limits
\* that update wrote; the three paths resolve the same daily limit from the
\* same settings, and a missing key is resolved to 3 per day and 1000 per
\* month.  Stated for the operations that start when no call is in flight.
C18_FreshLimits ==
    Quiescent =>
        /\ written.max_bookings_per_day # NoRow =>
               /\ ReserveMaxPerDay = written.max_bookings_per_day
               /\ QueryMaxPerDay = written.max_bookings_per_day
        /\ written.max_bookings_per_month # NoRow =>
               ReserveMaxPerMonth = written.max_bookings_per_month
        /\ ReserveMaxPerDay = QueryMaxPerDay
        /\ settings.max_bookings_per_day = NoRow => ReserveMaxPerDay = 3
        /\ settings.max_bookings_per_month = NoRow => ReserveMaxPerMonth = 1000

\* C18 for the runs in which no limit was written while a transaction was open
C18_FreshLimitsOutsideTxn ==
    (Quiescent /\ \A c \in Calls : result[c] \in {"pending", "success"}) =>
        /\ written.max_bookings_per_day # NoRow =>
               /\ ReserveMaxPerDay = written.max_bookings_per_day
               /\ QueryMaxPerDay = written.max_bookings_per_day
        /\ written.max_bookings_per_month # NoRow =>
               ReserveMaxPerMonth = written.max_bookings_per_month

\* ----- C19 -----
\* no two stored rows have the same id
UniqueInLedger ==
    \A r1, r2 \in submissions : r1.id = r2.id => r1 = r2

\* no two accepted calls were given the same id
NeverReused ==
    \A c1, c2 \in Calls :
        (c1 # c2 /\ result[c1] = "success" /\ result[c2] = "success")
            => newId[c1] # newId[c2]

\* C19: no two submissions share an id, and an id once given to an accepted
\* submission is never given to a later one, also after an admin has deleted
\* the earlier submission.
C19_UniqueIds == UniqueInLedger /\ NeverReused

\* the first half of C19 alone
C19_UniqueInLedger == UniqueInLedger

\* ----- what the caller of createSubmission gets -----

\* the message of the response: validation.error of validateBookingDate, or
\* error.message of the error addSubmission rejected with (the numbers some
\* messages carry are left out)
Message(outcome) ==
    CASE outcome = "PastDate" -> "Past dates cannot be booked"
      [] outcome = "BookingNotYetOpen" -> "Booking is not yet open for this date"
      [] outcome = "DateFullyBooked" -> "This date is fully booked (count/max bookings)"
      [] outcome = "DateNotOpen" -> "This date is not available for booking yet"
      [] outcome = "MonthlyCapacityExceeded" ->
             "Monthly booking limit reached (max bookings per month)"
      [] outcome = "DailyCapacityExceeded" -> "Date is fully booked"
      [] outcome \in {"InsertFailed", "CommitFailed"} -> "err.message"
      [] OTHER -> "none"

\* the response of createSubmission: res.status(HTTP.BAD_REQUEST).json(...) for
\* a failed validation, sendError(res, error.message) for a rejected
\* addSubmission, res.status(HTTP.CREATED).json(result) for a booking
Response(outcome) ==
    CASE outcome \in {"PastDate", "BookingNotYetOpen", "DateFullyBooked"} ->
             [send |-> "status(HTTP.BAD_REQUEST).json", message |-> Message(outcome)]
      [] outcome = "success" ->
             [send |-> "status(HTTP.CREATED).json", message |-> "none"]
      [] OTHER -> [send |-> "sendError", message |-> Message(outcome)]

\* ----- C20 -----
\* the kind of rejection an outcome stands for
RejectKind(outcome) ==
    CASE outcome = "PastDate" -> "PastDate"
      [] outcome \in {"BookingNotYetOpen", "DateNotOpen"} -> "DateNotOpen"
      [] outcome = "MonthlyCapacityExceeded" -> "MonthlyCapacityExceeded"
      [] outcome \in {"DateFullyBooked", "DailyCapacityExceeded"} -> "DailyCapacityExceeded"
      [] OTHER -> "StorageFailure"

Rejected(c) == pc[c] = "done" /\ result[c] \notin {"pending", "success"}

\* C20: every rejection reaches the caller as the result of the call; the
\* responses for two different kinds of rejection differ, and a kind gets the
\* same response whether validateBookingDate or addSubmission found it.
C20_OneResponsePerKind ==
    /\ \A c \in Calls : pc[c] = "done" => result[c] # "pending"
    /\ \A c1, c2 \in Calls : (Rejected(c1) /\ Rejected(c2)) =>
            ((RejectKind(result[c1]) = RejectKind(result[c2]))
                <=> (Response(result[c1]) = Response(result[c2])))

\* the part of C20 that holds: different kinds get different responses
C20_KindsDistinguishable ==
    /\ \A c \in Calls : pc[c] = "done" => result[c] # "pending"
    /\ \A c1, c2 \in Calls : (Rejected(c1) /\ Rejected(c2)) =>
            (RejectKind(result[c1]) # RejectKind(result[c2])
                => Response(result[c1]).message # Response(result[c2]).message)

\* ----- C21 -----
\* the first check to fail, in the order PastDate, DateNotOpen,
\* MonthlyCapacityExceeded, DailyCapacityExceeded, for a body on the tables as
\* they are
FirstFailingCheck(body) ==
    IF DayIndex(body.bookingDate) < today THEN "PastDate"
    ELSE IF body.bookingDate \notin calendar_availability THEN "DateNotOpen"
    ELSE IF MonthlyCount(submissions, bookingMonthStr(body.bookingDate),
                         body.upiNumber, body.whatsappNumber) >= ReserveMaxPerMonth
         THEN "MonthlyCapacityExceeded"
    ELSE IF Cardinality({r \in submissions : r.bookingDate = body.bookingDate
                                              /\ r.status # "archived"})
                >= ReserveMaxPerDay
         THEN "DailyCapacityExceeded"
    ELSE "none"

\* C21: a request is rejected with the kind of the first failing check in the
\* order PastDate, DateNotOpen, MonthlyCapacityExceeded, DailyCapacityExceeded;
\* a request for an open date that is not past, whose caller has reached the
\* monthly limit and whose date is full, gets MonthlyCapacityExceeded.  Stated
\* for the requests createSubmission answers without calling addSubmission.
C21_FirstFailingCheck ==
    [][\A c \in Calls : (pc[c] = "idle" /\ pc'[c] = "done") =>
            RejectKind(result'[c]) = FirstFailingCheck(data'[c])]_vars

\* the order of the checks inside addSubmission, for sequential calls: the
\* kind is DateNotOpen, else MonthlyCapacityExceeded, else
\* DailyCapacityExceeded, as the ledger stood when the call was issued
C21_OrderInAddSubmission ==
    [][\A c \in Calls : (Completes(c) /\ result'[c] # "InsertFailed") =>
            result'[c] =
                IF data[c].bookingDate \notin calendar_availability
                   THEN "DateNotOpen"
                ELSE IF ~UnderMonthlyCapBefore(c) THEN "MonthlyCapacityExceeded"
                ELSE IF ~AvailableBefore(c) THEN "DailyCapacityExceeded"
                ELSE "success"]_vars

\* ----- the admin edits a submission -----

\* a field the body of the update does not carry
NoStatus == "undefined"
NoPhone == 0

\* new Date(value).toISOString().split('T')[0] of a calendar date: the instant
\* of that day's UTC midnight, written back as a date
toISODate(value) == DateAt(DayIndex(value))

\* UPDATE submissions SET <the allowed fields the body carries> WHERE id = ?
\* (the fields that no query of the model reads, name, ayambilShalaName, city
\* and email, are not part of a row)
updateSubmission(id, updates) ==
    /\ submissions' =
          {IF r.id # id THEN r
           ELSE [r EXCEPT
                   !.status = IF updates.status = NoStatus THEN @ ELSE updates.status,
                   !.bookingDate = IF updates.bookingDate = NoDate
                                      THEN @ ELSE toISODate(updates.bookingDate),
                   !.upiNumber = IF updates.upiNumber = NoPhone
                                    THEN @ ELSE updates.upiNumber,
                   !.whatsappNumber = IF updates.whatsappNumber = NoPhone
                                         THEN @ ELSE updates.whatsappNumber]
             : r \in submissions}
    /\ UNCHANGED <<calendar_availability, settings>>

\* the bodies of an update: a new status, a new booking date, or both (an
\* update that carries no allowed field writes nothing)
Updates == {u \in [status : Statuses \cup {NoStatus}, bookingDate : Dates \cup {NoDate},
                   upiNumber : {NoPhone}, whatsappNumber : {NoPhone}] :
               u.status # NoStatus \/ u.bookingDate # NoDate}

\* PUT /submissions/:id: createBackup, then dbService.updateSubmission(id, body);
\* with no such row nothing changes and the call throws 'Submission not found'
UpdateSubmission(id, updates) ==
    /\ ~exited
    /\ adminOps < MaxAdminOps
    /\ \E r \in submissions : r.id = id
    /\ adminOps' = adminOps + 1
    /\ updateSubmission(id, updates)
    /\ UNCHANGED <<inTxn, journal, txnOwner, pc, locals, result, began, opened,
                   exited, side>>

\* ----- one operation at a time, with an admin at work -----
\* The addSubmission calls run one after the other; between two calls the admin
\* may edit a submission or change a limit, and the availability of a date is
\* queried once, at the end.

SeqUpdateSubmission(id, updates) == Quiescent /\ NotQueried /\ UpdateSubmission(id, updates)
SeqUpdateSettings(key, input) == Quiescent /\ NotQueried /\ UpdateSettings(key, input)

NextAdmin ==
    \/ \E c \in Calls, d \in OwnPhone : SeqAddSubmission(c, d)
    \/ \E c \in Calls : Begin(c)
    \/ \E c \in Calls : ReadSettings(c)
    \/ \E c \in Calls : CheckCalendar(c)
    \/ \E c \in Calls : CheckMonth(c)
    \/ \E c \in Calls : CheckDay(c)
    \/ \E c \in Calls : Insert(c)
    \/ \E c \in Calls : Commit(c)
    \/ \E c \in Calls : Rollback(c)
    \/ \E id \in IdSpace, u \in Updates : SeqUpdateSubmission(id, u)
    \/ \E key \in SettingKeys, input \in SettingInputs : SeqUpdateSettings(key, input)
    \/ \E date \in Dates : SeqIsDateAvailable(date)

SpecAdmin == InitSeq /\ [][NextAdmin]_vars

\* ----- C22 -----
\* the rows the claim counts toward the daily limit of a date, and toward the
\* monthly limit of a caller
DailyCounted(rows, date) ==
    {r \in rows : r.bookingDate = date /\ r.status \in {"pending", "reviewed", "rejected"}}
MonthlyCounted(rows, month, upi, whatsapp) ==
    {r \in rows : /\ bookingMonthStr(r.bookingDate) = month
                  /\ (r.upiNumber = upi \/ r.whatsappNumber = whatsapp)
                  /\ r.status \in {"pending", "reviewed"}}

PassesChecks(c) == result'[c] \in {"success", "InsertFailed"}

\* C22: a rejected submission counts toward the daily limit of its date and not
\* toward the monthly limit, an archived one toward neither: a call passes the
\* capacity checks exactly when the date is open and both counts, taken that
\* way, are under their limits.  When the admin sets a counting submission to
\* archived its date has one booking less (on a full date, one call more passes
\* and the date is full again); set to rejected, the daily count is unchanged.
C22_StatusCounting ==
    [][/\ \A c \in Calls : Completes(c) =>
             (PassesChecks(c) <=>
                /\ data[c].bookingDate \in calendar_availability
                /\ Cardinality(MonthlyCounted(LedgerBefore(c),
                                              bookingMonthStr(data[c].bookingDate),
                                              data[c].upiNumber, data[c].whatsappNumber))
                      < ReserveMaxPerMonth
                /\ Cardinality(DailyCounted(LedgerBefore(c), data[c].bookingDate))
                      < ReserveMaxPerDay)
       /\ \A id \in IdSpace, u \in Updates :
             (UpdateSubmission(id, u) /\ u.bookingDate = NoDate) =>
                \A r \in submissions : r.id = id /\ r.status # "archived" =>
                   /\ u.status = "archived" =>
                         DailyCount(submissions', r.bookingDate)
                            = DailyCount(submissions, r.bookingDate) - 1
                   /\ u.status = "rejected" =>
                         DailyCount(submissions', r.bookingDate)
                            = DailyCount(submissions, r.bookingDate)]_vars

\* a call was refused on a full date, the admin archived the booking that
\* filled it, and the next call for that date was accepted
C22_Witness ==
    /\ AllDone
    /\ BeganBefore(1, 2)
    /\ result[1] = "DailyCapacityExceeded" /\ result[2] = "success"
    /\ data[1].bookingDate = <<1, 1>> /\ data[2].bookingDate = <<1, 1>>
    /\ written = NoLimits /\ settings.max_bookings_per_day = 1
    /\ \E r \in submissions : r.by = NoCall /\ r.status = "archived"
                               /\ r.bookingDate = <<1, 1>>

\* ----- the admin sets the limits -----

\* the integers a body may carry for a limit: below, at and above each end of
\* the two ranges
IntegerInputs == {-1, 0, 1, 2, 100, 101, 10000, 10001}

\* req.body of updateSettings: each of the two fields is there or undefined
SettingBodies == UNION {[keys -> IntegerInputs] : keys \in SUBSET SettingKeys}

\* updateSettings(req.body): for each field that is not undefined, one
\* setSetting(key, value) with the value the controller computes
updateSettings(body) ==
    /\ settings' = [key \in SettingKeys |->
                       IF key \in DOMAIN body THEN ClampSetting(key, body[key])
                                              ELSE settings[key]]
    /\ written' = [key \in SettingKeys |->
                       IF key \in DOMAIN body THEN ClampSetting(key, body[key])
                                              ELSE written[key]]
    /\ UNCHANGED <<submissions, calendar_availability>>

PutSettings(body) ==
    /\ ~exited
    /\ updateSettings(body)
    /\ UNCHANGED <<inTxn, journal, txnOwner, pc, locals, result, began, opened,
                   adminOps, exited, today, availability, finder>>

\* the admin sets the limits any number of times, and the availability of a
\* date is queried in between
NextSettings ==
    \/ \E body \in SettingBodies : PutSettings(body)
    \/ \E date \in Dates : IsDateAvailable(date)

SpecSettings == InitSeq /\ [][NextSettings]_vars

\* ----- C23 -----
Clamp(value, low, high) == Max(low, Min(high, value))
UpperEnd(key) == IF key = "max_bookings_per_day" THEN 100 ELSE 10000

\* C23: after every updateSettings call the stored limit of a supplied field is
\* the supplied integer clamped to [1,100] (per day) or [1,10000] (per month),
\* and the stored limit of a field that was not supplied is unchanged.
C23_Clamped ==
    [][\A body \in SettingBodies : PutSettings(body) =>
          \A key \in SettingKeys :
              settings'[key] = IF key \in DOMAIN body
                                  THEN Clamp(body[key], 1, UpperEnd(key))
                                  ELSE settings[key]]_vars

\* the same for the bodies that carry no 0
C23_ClampedNonZero ==
    [][\A body \in SettingBodies :
          (PutSettings(body) /\ \A key \in DOMAIN body : body[key] # 0) =>
             \A key \in SettingKeys :
                 settings'[key] = IF key \in DOMAIN body
                                     THEN Clamp(body[key], 1, UpperEnd(key))
                                     ELSE settings[key]]_vars

\* ----- C24 -----
\* C24: a rejected call changes nothing: once its ROLLBACK has run, the ledger,
\* the calendar and the settings hold what every other call and every admin
\* write put there, as if the rejected call had never been issued.
C24_RejectedChangesNothing ==
    [][\A c \in Calls : (pc[c] = "rollback" /\ pc'[c] = "done") =>
            /\ submissions' = submissions \ RowsOf(submissions, c)
            /\ calendar_availability' = calendar_availability
            /\ settings' = settings]_vars

\* ----- C25 -----
\* the statements of a call that belong inside its transaction: the settings
\* and calendar lookups, the two counts, the INSERT, and the COMMIT or ROLLBACK
InsideTransaction == {"settings", "calendar", "month", "day", "insert", "commit", "rollback"}

MaxRequests == 3

\* the place of a settled call is taken again
Recycle(c) ==
    /\ ~exited
    /\ pc[c] = "done"
    /\ Len(began) < MaxRequests
    /\ Goto(c, "idle")
    /\ result' = [result EXCEPT ![c] = "pending"]
    /\ opened' = opened \ {c}
    /\ UNCHANGED <<tables, inTxn, journal, txnOwner, locals, began, adminOps,
                   exited, side>>

\* addSubmission, while the run has BEGIN statements left
NewAddSubmission(c, d) ==
    /\ Len(began) + Cardinality({b \in Calls : pc[b] = "begin"}) < MaxRequests
    /\ AddSubmission(c, d)

NextRecycle ==
    \/ \E c \in Calls, d \in OwnPhone : NewAddSubmission(c, d)
    \/ \E c \in Calls : Begin(c)
    \/ \E c \in Calls : BeginRefused(c)
    \/ \E c \in Calls : ReadSettings(c)
    \/ \E c \in Calls : CheckCalendar(c)
    \/ \E c \in Calls : CheckMonth(c)
    \/ \E c \in Calls : CheckDay(c)
    \/ \E c \in Calls : Insert(c)
    \/ \E c \in Calls : Commit(c)
    \/ \E c \in Calls : Rollback(c)
    \/ \E c \in Calls : RollbackRefused(c)
    \/ \E c \in Calls : UncaughtException(c)
    \/ \E c \in Calls : Recycle(c)

SpecRecycle == Init /\ [][NextRecycle]_vars

NextLower ==
    \/ \E c \in Calls, d \in OwnPhone : SeqAddSubmission(c, d)
    \/ \E c \in Calls : Begin(c)
    \/ \E c \in Calls : ReadSettings(c)
    \/ \E c \in Calls : CheckCalendar(c)
    \/ \E c \in Calls : CheckMonth(c)
    \/ \E c \in Calls : CheckDay(c)
    \/ \E c \in Calls : Insert(c)
    \/ \E c \in Calls : Commit(c)
    \/ \E c \in Calls : Rollback(c)
    \/ \E key \in SettingKeys, input \in SettingInputs : SeqUpdateSettings(key, input)
    \/ \E date \in Dates : SeqIsDateAvailable(date)

SpecLower == InitSeq /\ [][NextLower]_vars

\* ----- C27 -----
\* C27: isDateAvailable never reports a negative remaining, and the date
\* getNextAvailableDate returns has a remaining of at least 1, also after the
\* admin has set the daily limit below the bookings a date already holds.
C27_RemainingNotNegative ==
    /\ availability.remaining >= 0
    /\ (finder.pc = "returned" /\ finder.date # NoDate) => finder.remaining >= 1

\* the part about getNextAvailableDate alone
C27_FoundDateHasRoom ==
    (finder.pc = "returned" /\ finder.date # NoDate) => finder.remaining >= 1

\* ----- C28 -----
\* C28: an admin update that moves a submission to another date, or turns an
\* archived submission into a counting one, never takes the number of
\* non-archived submissions of the date it lands on above the daily limit.
C28_UpdateKeepsDailyCap ==
    [][\A id \in IdSpace, u \in Updates : UpdateSubmission(id, u) =>
          \A r \in submissions' :
              (r.id = id /\ r.status # "archived") =>
                  \/ DailyCount(submissions', r.bookingDate) <= ReserveMaxPerDay
                  \/ DailyCount(submissions', r.bookingDate)
                        <= DailyCount(submissions, r.bookingDate)]_vars

\* ----- callers with two phone numbers, one call at a time -----
\* The addSubmission calls run one after the other, every date is open, and a
\* request may give different numbers as UPI and as WhatsApp number.
NextMonthly ==
    \/ \E c \in Calls, d \in Requests : NextAddSubmission(c, d)
    \/ \E c \in Calls : Begin(c)
    \/ \E c \in Calls : ReadSettings(c)
    \/ \E c \in Calls : CheckCalendar(c)
    \/ \E c \in Calls : CheckMonth(c)
    \/ \E c \in Calls : CheckDay(c)
    \/ \E c \in Calls : Insert(c)
    \/ \E c \in Calls : Commit(c)
    \/ \E c \in Calls : Rollback(c)

SpecMonthly == Init /\ [][NextMonthly]_vars

\* ----- C29 -----
\* the counted submissions of a month that carry phone number p, as UPI or as
\* WhatsApp number
CountedFor(rows, month, p) ==
    {r \in rows : /\ bookingMonthStr(r.bookingDate) = month
                  /\ (r.upiNumber = p \/ r.whatsappNumber = p)
                  /\ r.status \notin {"archived", "rejected"}}

\* C29: the monthly limit holds per phone number: for every number p and every
\* month, the counted submissions that carry p as UPI number or as WhatsApp
\* number are at most max_bookings_per_month, also when p is the UPI number of
\* one request and the WhatsApp number of another.
C29_MonthlyCapPerPhone ==
    \A p \in Phones, month \in 1..MaxMonth :
        Cardinality(CountedFor(Committed.submissions, month, p)) <= maxPerMonth

\* the same for the field a number was given in: the counted submissions of a
\* request's UPI number as UPI number, or of its WhatsApp number as WhatsApp
\* number
C29_MonthlyCapPerField ==
    \A p \in Phones, q \in Phones, month \in 1..MaxMonth :
        (\E r \in Committed.submissions :
              r.by # NoCall /\ r.upiNumber = p /\ r.whatsappNumber = q
              /\ bookingMonthStr(r.bookingDate) = month)
          => MonthlyCount(Committed.submissions, month, p, q) <= maxPerMonth

\* ----- every queued statement runs -----
\* The connection runs every statement that was queued and calls its callback:
\* the next statement of a call in flight is always run in the end, whatever
\* the other calls do.  A statement that fails without a callback has the two
\* outcomes described above.

\* the next statement of call c runs
Statement(c) ==
    \/ Begin(c)
    \/ BeginRefused(c)
    \/ ReadSettings(c)
    \/ CheckCalendar(c)
    \/ CheckMonth(c)
    \/ CheckDay(c)
    \/ Insert(c)
    \/ Commit(c)
    \/ Rollback(c)
    \/ RollbackRefused(c)
    \/ UncaughtException(c)

NextFair ==
    \/ \E c \in Calls, d \in OwnPhone : AddSubmission(c, d)
    \/ \E c \in Calls : Begin(c)
    \/ \E c \in Calls : BeginRefused(c)
    \/ \E c \in Calls : ReadSettings(c)
    \/ \E c \in Calls : CheckCalendar(c)
    \/ \E c \in Calls : CheckMonth(c)
    \/ \E c \in Calls : CheckDay(c)
    \/ \E c \in Calls : Insert(c)
    \/ \E c \in Calls : Commit(c)
    \/ \E c \in Calls : Rollback(c)
    \/ \E c \in Calls : RollbackRefused(c)
    \/ \E c \in Calls : UncaughtException(c)

SpecFair == Init /\ [][NextFair]_vars /\ \A c \in Calls : WF_vars(Statement(c))

\* ----- C30 -----
Issued(c) == pc[c] \notin {"idle", "done"}
Settled(c) == result[c] # "pending"

\* C30: every call that was issued is settled in the end, however many calls
\* are in flight, and a call that is settled stays settled with the same
\* result: none stays pending for ever, none is settled twice.
C30_SettlesOnce ==
    /\ \A c \in Calls : Issued(c) ~> Settled(c)
    /\ [][\A c \in Calls : Settled(c) => result'[c] = result[c]]_vars

\* the same as long as the process is up
C30_SettlesUnlessExit ==
    /\ \A c \in Calls : Issued(c) ~> (Settled(c) \/ exited)
    /\ [][\A c \in Calls : Settled(c) => result'[c] = result[c]]_vars

====
